---- MODULE Spec2Model ----
(***************************************************************************)
(* Verification model of vietbt/ViTextnormASR:                             *)
(*   src/network/model.py    BERTModel (dual-task forward pass)            *)
(*   src/network/trainer.py  init_default_optimizer, evaluate, train       *)
(*                                                                         *)
(* Tensors are modelled along their sequence axis only (a tensor is the    *)
(* sequence of the positions it holds); floating-point scores are modelled *)
(* as integers (F1 in percent, weight decay in hundredths).                *)
(*                                                                         *)
(* The module holds one specification per unit of the program:             *)
(*   SpecForward  BERTModel.forward, called repeatedly on one model        *)
(*   SpecDecoder  the decoding heads of BERTModel on two runs              *)
(*   SpecOptim    init_default_optimizer                                   *)
(*   SpecEval     evaluate                                                 *)
(*   SpecTrain    train                                                    *)
(***************************************************************************)
EXTENDS Integers, Sequences, FiniteSets, TLC

VARIABLES
    \* ---- BERTModel.forward (model.py) ----
    mode,               \* self.mode
    is_decoder,         \* self.bert.config.is_decoder (= add_cross_attention)
    fpc,                \* position inside forward
    args,               \* the arguments of the current call
    passes,             \* encoder passes run by the current call, in order
    norm_bert_output,   \* local: sequence of positions, or Unbound
    punc_bert_output,   \* local
    next_blocks,        \* local: the encoded, concatenated next blocks
    prev_blocks,        \* local
    norm_hidden_output, \* local
    punc_hidden_output, \* local
    result              \* what the call returned or raised

fvars == <<mode, is_decoder, fpc, args, passes, norm_bert_output,
           punc_bert_output, next_blocks, prev_blocks, norm_hidden_output,
           punc_hidden_output, result>>

VARIABLES
    \* ---- decoding heads of BERTModel on two runs (model.py, trainer.py) ----
    biaffine,           \* train's biaffine argument
    using_biaffine,     \* self.using_biaffine
    decoders,           \* self.norm_decoder, self.punc_decoder
    mlp_output,         \* per run: norm_mlp_output, punc_mlp_output
    logits,             \* per run: norm_logits, punc_logits
    dpc                 \* "config" before construction, "built" after

dvars == <<biaffine, using_biaffine, decoders, mlp_output, logits, dpc>>

VARIABLES
    \* ---- init_default_optimizer (trainer.py) ----
    named_parameters,   \* model.named_parameters(): the names, in order
    bert_lr,            \* argument bert_lr
    optimizer_grouped_parameters,
    param_groups,       \* the optimizer's groups once AdamW is built
    opc

ovars == <<named_parameters, bert_lr, optimizer_grouped_parameters,
           param_groups, opc>>

VARIABLES
    \* ---- evaluate (trainer.py) ----
    data_loader,        \* the batches evaluate iterates over
    batch_no,           \* batches processed so far
    pred_labels,        \* {"norm": [...], "punc": [...]}
    goal_labels,
    scored,             \* what report_func was handed
    epc

evars == <<data_loader, batch_no, pred_labels, goal_labels, scored, epc>>

VARIABLES
    \* ---- train (trainer.py) ----
    model_mode,         \* argument model_mode
    total_step,         \* len(data.train_loader)
    n_epochs,           \* data.n_epochs
    dev_f1,             \* per task: the micro-avg F1 the dev split scores, by epoch
    tpc,                \* position inside train
    epoch,              \* epochs completed
    step,               \* batches completed in the current epoch
    global_step,
    grads,              \* backward passes accumulated in the gradients
    optimizer_steps,    \* calls of optimizer.step()
    scheduler_steps,    \* calls of scheduler.step()
    step_ops,           \* what the current training step has done, in order
    best_f1_scores,
    best_events,        \* per task: the epochs that printed "Best F1"
    dev_history,        \* per task: dev F1 of each epoch that tracked it
    best_history,       \* per task: best_f1_scores after each such epoch
    forward_calls,      \* calls of the model's forward
    eval_calls,         \* calls of evaluate
    error               \* the exception that ended the run, if any

tcfg == <<model_mode, total_step, n_epochs, dev_f1>>
tcount == <<global_step, optimizer_steps, scheduler_steps, forward_calls,
            eval_calls>>
tbest == <<best_f1_scores, best_events, dev_history, best_history>>
tvars == <<tcfg, tpc, epoch, step, grads, step_ops, tcount, tbest, error>>

VARIABLE training      \* model.training: set by model.train() / model.eval()

vars == <<fvars, dvars, ovars, evars, tvars, training>>

FOnly == UNCHANGED <<dvars, ovars, evars, tvars, training>>
DOnly == UNCHANGED <<fvars, ovars, evars, tvars, training>>
OOnly == UNCHANGED <<fvars, dvars, evars, tvars, training>>
EOnly == UNCHANGED <<fvars, dvars, ovars, tvars>>
TOnly == UNCHANGED <<fvars, dvars, ovars, evars>>

----------------------------------------------------------------------------
(* Bounds of the model.                                                    *)

MaxFocalLen == 2
MaxBlocks == 2
MaxBlockLen == 1

----------------------------------------------------------------------------
(* Helpers.                                                                *)

Min(a, b) == IF a < b THEN a ELSE b
Max(a, b) == IF a > b THEN a ELSE b

RECURSIVE SumSeq(_)
SumSeq(s) == IF s = <<>> THEN 0 ELSE Head(s) + SumSeq(Tail(s))

\* All sequences over S of length lo..hi.
SeqsOf(S, lo, hi) == UNION {[1..n -> S] : n \in lo..hi}

\* Python's s[start:stop] (step 1) on a sequence: a negative index counts
\* from the end, indices are clamped to the sequence, and -0 is 0.
PyIndex(i, n) == IF i < 0 THEN Max(n + i, 0) ELSE Min(i, n)
PySlice(s, start, stop) ==
    SubSeq(s, PyIndex(start, Len(s)) + 1, PyIndex(stop, Len(s)))

----------------------------------------------------------------------------
(* BERTModel (src/network/model.py).                                       *)

JointModes == {"nojoint", "norm_to_punc", "punc_to_norm"}
\* self.mode is whatever string the caller passed (model.py line 16).
ModelModes == JointModes \cup {"unknown_mode"}

\* A Python name that no branch has assigned, and the value None.
Unbound == [bound |-> FALSE, seq |-> <<>>]
Tensor(s) == [bound |-> TRUE, seq |-> s]
None == [given |-> FALSE, lens |-> <<>>]
Blocks(lens) == [given |-> TRUE, lens |-> lens]
\* A list of blocks once encoded and concatenated along the sequence axis.
Encoded(lens, s) == [given |-> TRUE, lens |-> lens, seq |-> s]

\* One position of a hidden-state tensor: where it comes from.
Pos(src, i) == [src |-> src, idx |-> i]
Positions(src, n) == [i \in 1..n |-> Pos(src, i)]

\* The block lists a caller can pass: None, or a non-empty list of blocks,
\* each given by its sequence length.
BlockArgs == {None} \cup {Blocks(l) : l \in SeqsOf(0..MaxBlockLen, 1, MaxBlocks)}

ForwardArgs ==
    [focal_len : 1..MaxFocalLen, norm_ids : BOOLEAN, punc_ids : BOOLEAN,
     next_blocks : BlockArgs, prev_blocks : BlockArgs]

\* set_bert_mode: the new value of bert.config.is_decoder.
set_bert_mode(cur, m) ==
    IF m = "encoder" THEN FALSE
    ELSE IF m = "decoder" THEN TRUE
    ELSE cur

\* forward_bert: the mode it selects from its encoder_hidden_states argument
\* (0 stands for None, k > 0 for the output of the call's k-th pass).
forward_bert_mode(encoder_hidden_states) ==
    IF encoder_hidden_states = 0 THEN "encoder" ELSE "decoder"

\* The record kept of one encoder pass.
Pass(via, task, ctx, flag) ==
    [via |-> via, task |-> task, ctx |-> ctx, is_decoder |-> flag]

\* forward, lines 74-93: with a mode that matches no branch the first read of
\* norm_bert_output raises.
ForwardRaises(m) == m \notin JointModes

\* forward, lines 74-82: which task is encoded first, and what the second
\* pass receives as encoder_hidden_states (the index of the pass whose
\* output it is, 0 for none).
FirstTask(m) == IF m = "punc_to_norm" THEN "punc" ELSE "norm"
SecondTask(m) == IF m = "punc_to_norm" THEN "norm" ELSE "punc"
\* A variant that never conditions the second pass; C2 tells it apart.
SecondContext_NeverConditioned(m) == 0
SecondContext(m) == IF m = "nojoint" THEN 0 ELSE 1

FIdle ==
    /\ mode = "nojoint"
    /\ is_decoder = FALSE
    /\ fpc = "off"
    /\ args = [focal_len |-> 1, norm_ids |-> FALSE, punc_ids |-> FALSE,
               next_blocks |-> None, prev_blocks |-> None]
    /\ passes = <<>>
    /\ norm_bert_output = Unbound
    /\ punc_bert_output = Unbound
    /\ next_blocks = None
    /\ prev_blocks = None
    /\ norm_hidden_output = Unbound
    /\ punc_hidden_output = Unbound
    /\ result = "none"

FInit ==
    /\ mode \in ModelModes
    /\ is_decoder = FALSE
    /\ fpc = "idle"
    /\ args = [focal_len |-> 1, norm_ids |-> FALSE, punc_ids |-> FALSE,
               next_blocks |-> None, prev_blocks |-> None]
    /\ passes = <<>>
    /\ norm_bert_output = Unbound
    /\ punc_bert_output = Unbound
    /\ next_blocks = None
    /\ prev_blocks = None
    /\ norm_hidden_output = Unbound
    /\ punc_hidden_output = Unbound
    /\ result = "none"

\* model(...): a call of forward on the model, which keeps its encoder (and
\* the encoder's flag) from one call to the next.
F_Call ==
    /\ FOnly
    /\ fpc \in {"idle", "returned", "raised"}
    /\ \E a \in ForwardArgs : args' = a
    /\ fpc' = "encode_first"
    /\ passes' = <<>>
    /\ norm_bert_output' = Unbound
    /\ punc_bert_output' = Unbound
    /\ next_blocks' = args'.next_blocks
    /\ prev_blocks' = args'.prev_blocks
    /\ norm_hidden_output' = Unbound
    /\ punc_hidden_output' = Unbound
    /\ result' = "none"
    /\ UNCHANGED <<mode, is_decoder>>

\* forward_bert(input_ids, mask_ids [, encoder_hidden_states]) for `task`.
forward_bert(task, encoder_hidden_states) ==
    /\ is_decoder' = set_bert_mode(is_decoder,
                                   forward_bert_mode(encoder_hidden_states))
    /\ passes' = Append(passes, Pass("forward_bert", task,
                                     encoder_hidden_states, is_decoder'))
    /\ IF task = "norm"
       THEN /\ norm_bert_output' = Tensor(Positions("focal", args.focal_len))
            /\ UNCHANGED punc_bert_output
       ELSE /\ punc_bert_output' = Tensor(Positions("focal", args.focal_len))
            /\ UNCHANGED norm_bert_output

\* Lines 74-82, first forward_bert of the selected branch.
F_EncodeFirst ==
    /\ FOnly
    /\ fpc = "encode_first"
    /\ mode \in JointModes
    /\ forward_bert(FirstTask(mode), 0)
    /\ fpc' = "encode_second"
    /\ UNCHANGED <<mode, args, next_blocks, prev_blocks, norm_hidden_output,
                   punc_hidden_output, result>>

\* Lines 74-82, second forward_bert of the selected branch.
F_EncodeSecond ==
    /\ FOnly
    /\ fpc = "encode_second"
    /\ forward_bert(SecondTask(mode), SecondContext(mode))
    /\ fpc' = "context"
    /\ UNCHANGED <<mode, args, next_blocks, prev_blocks, norm_hidden_output,
                   punc_hidden_output, result>>

\* Lines 74-82 when self.mode matches no branch: nothing is encoded and
\* norm_bert_output / punc_bert_output stay unassigned.
F_NoBranch ==
    /\ FOnly
    /\ fpc = "encode_first"
    /\ mode \notin JointModes
    /\ fpc' = "context"
    /\ UNCHANGED <<mode, is_decoder, args, passes, norm_bert_output,
                   punc_bert_output, next_blocks, prev_blocks,
                   norm_hidden_output, punc_hidden_output, result>>

\* Lines 84-89: [self.bert(block)[0] for block in ...] for the next blocks,
\* then for the prev blocks, then torch.cat of each list.  self.bert(block)
\* runs the encoder with whatever bert.config.is_decoder currently holds.
BlockPasses(kind, blocks, flag) ==
    [i \in 1..Len(blocks.lens) |-> Pass("bert", kind, 0, flag)]
EncodeBlocks(kind, blocks) ==
    Encoded(blocks.lens, Positions(kind, SumSeq(blocks.lens)))

F_EncodeContext ==
    /\ FOnly
    /\ fpc = "context"
    /\ next_blocks.given /\ prev_blocks.given
    /\ passes' = passes \o BlockPasses("next", next_blocks, is_decoder)
                        \o BlockPasses("prev", prev_blocks, is_decoder)
    /\ next_blocks' = EncodeBlocks("next", next_blocks)
    /\ prev_blocks' = EncodeBlocks("prev", prev_blocks)
    /\ fpc' = "attach"
    /\ UNCHANGED <<mode, is_decoder, args, norm_bert_output, punc_bert_output,
                   norm_hidden_output, punc_hidden_output, result>>

\* Line 84 when one of the two block lists is None: nothing is attached.
F_SkipContext ==
    /\ FOnly
    /\ fpc = "context"
    /\ ~(next_blocks.given /\ prev_blocks.given)
    /\ fpc' = "hidden"
    /\ UNCHANGED <<mode, is_decoder, args, passes, norm_bert_output,
                   punc_bert_output, next_blocks, prev_blocks,
                   norm_hidden_output, punc_hidden_output, result>>

\* torch.cat((prev_blocks, bert_output, next_blocks), 1)
CatContext(prev, focal, next) == prev \o focal \o next

\* Lines 90-91.  Reading norm_bert_output when no branch assigned it raises
\* UnboundLocalError.
F_Attach ==
    /\ FOnly
    /\ fpc = "attach"
    /\ IF norm_bert_output.bound /\ punc_bert_output.bound
       THEN /\ norm_bert_output' = Tensor(CatContext(prev_blocks.seq,
                                    norm_bert_output.seq, next_blocks.seq))
            /\ punc_bert_output' = Tensor(CatContext(prev_blocks.seq,
                                    punc_bert_output.seq, next_blocks.seq))
            /\ fpc' = "hidden"
            /\ UNCHANGED result
       ELSE /\ fpc' = "raised"
            /\ result' = "UnboundLocalError"
            /\ UNCHANGED <<norm_bert_output, punc_bert_output>>
    /\ UNCHANGED <<mode, is_decoder, args, passes, next_blocks, prev_blocks,
                   norm_hidden_output, punc_hidden_output>>

\* forward_hidden_layers (lines 49-56): attention pooling keeps the sequence
\* axis; with both block tensors present the result is sliced
\* [:, prev_dim:-next_dim, :].
forward_hidden_layers(bert_output, nb, pb) ==
    IF nb.given /\ pb.given
    THEN LET next_dim == Len(nb.seq)
             prev_dim == Len(pb.seq)
         IN  PySlice(bert_output, prev_dim, -next_dim)
    ELSE bert_output

\* Lines 93-94.
F_Hidden ==
    /\ FOnly
    /\ fpc = "hidden"
    /\ IF norm_bert_output.bound /\ punc_bert_output.bound
       THEN /\ norm_hidden_output' = Tensor(forward_hidden_layers(
                        norm_bert_output.seq, next_blocks, prev_blocks))
            /\ punc_hidden_output' = Tensor(forward_hidden_layers(
                        punc_bert_output.seq, next_blocks, prev_blocks))
            /\ fpc' = "decode"
            /\ UNCHANGED result
       ELSE /\ fpc' = "raised"
            /\ result' = "UnboundLocalError"
            /\ UNCHANGED <<norm_hidden_output, punc_hidden_output>>
    /\ UNCHANGED <<mode, is_decoder, args, passes, norm_bert_output,
                   punc_bert_output, next_blocks, prev_blocks>>

\* Lines 106-113, given the label arguments and the sequence lengths of the
\* logits (the MLPs and decoders of lines 96-104 keep the sequence axis).
\* Labels have one id per focal token; logits.view(ids.shape[0], -1) needs a
\* tensor whose size ids.shape[0] divides, and cannot infer -1 on an empty one.
ForwardResult(norm_ids, punc_ids, n_ids, norm_len, punc_len) ==
    IF ~norm_ids /\ ~punc_ids THEN "logits"
    ELSE IF ~norm_ids \/ ~punc_ids THEN "AttributeError"
    ELSE IF norm_len # n_ids \/ punc_len # n_ids THEN "RuntimeError"
    ELSE "losses"

\* Lines 96-113.
F_Return ==
    /\ FOnly
    /\ fpc = "decode"
    /\ result' = ForwardResult(args.norm_ids, args.punc_ids, args.focal_len,
                               Len(norm_hidden_output.seq),
                               Len(punc_hidden_output.seq))
    /\ fpc' = IF result' \in {"logits", "losses"} THEN "returned" ELSE "raised"
    /\ UNCHANGED <<mode, is_decoder, args, passes, norm_bert_output,
                   punc_bert_output, next_blocks, prev_blocks,
                   norm_hidden_output, punc_hidden_output>>

FNext ==
    \/ F_Call
    \/ F_EncodeFirst
    \/ F_EncodeSecond
    \/ F_NoBranch
    \/ F_EncodeContext
    \/ F_SkipContext
    \/ F_Attach
    \/ F_Hidden
    \/ F_Return

----------------------------------------------------------------------------
(* The decoding heads: train's biaffine argument (trainer.py line 67, 74), *)
(* BERTModel.__init__ (model.py lines 18-28) and the decode step of        *)
(* forward (lines 99-104), on two forward runs of one model.  Vectors and  *)
(* weights are scalars.                                                    *)

MaxWeight == 1
MaxMlp == 1

\* tanh(...) of lines 96-97 lies in [-1, 1].
MlpValues == (0 - MaxMlp)..MaxMlp
DecoderWeights == [bilinear : 0..MaxWeight, linear : 0..MaxWeight]
Runs == {1, 2}

\* layers.BiaffineAttention: a bilinear form of the two inputs plus a linear
\* term over both.
BiaffineAttention(w, own, other) ==
    w.bilinear * own * other + w.linear * (own + other)

\* nn.Linear: a linear map of the task's own vector.
Linear(w, own) == w.linear * own

\* __init__, line 18: the value self.using_biaffine is given.
InitUsingBiaffine(biaffine_arg) == TRUE

\* __init__, lines 23-28.
MakeDecoder(ub, w) ==
    [kind |-> IF ub THEN "BiaffineAttention" ELSE "Linear", w |-> w]

\* forward, lines 99-104, for one task: the logits, and the MLP outputs they
\* are computed from.
Decode(ub, dec, own, other) ==
    IF ub THEN BiaffineAttention(dec.w, own, other) ELSE Linear(dec.w, own)
DecodeInputs(ub, own_name, other_name) ==
    IF ub THEN {own_name, other_name} ELSE {own_name}

NoRun == [done |-> FALSE, norm |-> 0, punc |-> 0]
NoLogits == [done |-> FALSE, norm |-> 0, punc |-> 0,
             norm_from |-> {}, punc_from |-> {}]

DIdle ==
    /\ biaffine = TRUE
    /\ using_biaffine = FALSE
    /\ decoders = <<>>
    /\ mlp_output = [r \in Runs |-> NoRun]
    /\ logits = [r \in Runs |-> NoLogits]
    /\ dpc = "off"

DInit ==
    /\ biaffine \in BOOLEAN
    /\ using_biaffine = FALSE
    /\ decoders = <<>>
    /\ mlp_output = [r \in Runs |-> NoRun]
    /\ logits = [r \in Runs |-> NoLogits]
    /\ dpc = "config"

\* train line 74 -> BERTModel.__init__: the heads are built.
D_Construct ==
    /\ DOnly
    /\ dpc = "config"
    /\ using_biaffine' = InitUsingBiaffine(biaffine)
    /\ \E wn \in DecoderWeights, wp \in DecoderWeights :
          decoders' = [norm |-> MakeDecoder(using_biaffine', wn),
                       punc |-> MakeDecoder(using_biaffine', wp)]
    /\ dpc' = "built"
    /\ UNCHANGED <<biaffine, mlp_output, logits>>

\* One forward run, from the MLP outputs of lines 96-97 to the logits.
D_Forward(r) ==
    /\ DOnly
    /\ dpc = "built"
    /\ ~logits[r].done
    /\ \E n \in MlpValues, p \in MlpValues :
          /\ mlp_output' = [mlp_output EXCEPT
                              ![r] = [done |-> TRUE, norm |-> n, punc |-> p]]
          /\ logits' = [logits EXCEPT ![r] =
                [done |-> TRUE,
                 norm |-> Decode(using_biaffine, decoders.norm, n, p),
                 punc |-> Decode(using_biaffine, decoders.punc, p, n),
                 norm_from |-> DecodeInputs(using_biaffine,
                                 "norm_mlp_output", "punc_mlp_output"),
                 punc_from |-> DecodeInputs(using_biaffine,
                                 "punc_mlp_output", "norm_mlp_output")]]
    /\ UNCHANGED <<biaffine, using_biaffine, decoders, dpc>>

DNext ==
    \/ D_Construct
    \/ \E r \in Runs : D_Forward(r)

----------------------------------------------------------------------------
(* init_default_optimizer (src/network/trainer.py lines 16-29).            *)
(* A parameter name is the sequence of its dot-separated components;       *)
(* learning rates are in units of 1e-5, weight decay in hundredths.        *)

MaxParams == 3

\* lr: train passes 0.001 (line 76).
HeadLr == 100
\* bert_weight_decay=0.05 (line 16).
BertWeightDecay == 5
\* The AdamW built at line 29 is given no weight_decay of its own:
\* transformers' AdamW then uses its default, 0.0, for every group that
\* carries no "weight_decay" entry.
AdamWDefaultWeightDecay == 0

\* bert_lr: data.learning_rate (line 76).
BertLrs == {2, 100}

\* Parameter names of a BERTModel (model.py lines 11-28).
ParamNames ==
    { <<"bert", "embeddings", "word_embeddings", "weight">>,
      <<"bert", "embeddings", "LayerNorm", "weight">>,
      <<"bert", "encoder", "dense", "bias">>,
      <<"norm_mlp", "weight">>,
      <<"norm_mlp", "bias">>,
      <<"punc_decoder", "weight">>,
      <<"attn", "LayerNorm", "weight">> }

\* model.named_parameters(): distinct names, in some order.
ParamLists ==
    {l \in SeqsOf(ParamNames, 0, MaxParams) :
        \A i, j \in DOMAIN l : i # j => l[i] # l[j]}

\* n.startswith("bert.")
StartsWithBert(n) == Len(n) >= 2 /\ n[1] = "bert"
\* any(x in n for x in ['bias', 'LayerNorm.weight'])
NoDecay(n) ==
    \/ \E i \in DOMAIN n : n[i] = "bias"
    \/ \E i \in 1..(Len(n) - 1) : n[i] = "LayerNorm" /\ n[i + 1] = "weight"

\* A variant of the grouping that sets the decay of every parameter; C5
\* tells it apart.
OptimizerParams_DecayEverywhere(n, b_lr, lr, bert_weight_decay) ==
    [params |-> n,
     lr |-> IF StartsWithBert(n) THEN b_lr ELSE lr,
     weight_decay |-> IF NoDecay(n) THEN 0 ELSE bert_weight_decay]

\* Lines 19-27: the dict built for one parameter.  Outside the encoder no
\* "weight_decay" key is set.
OptimizerParams(n, b_lr, lr, bert_weight_decay) ==
    IF StartsWithBert(n)
    THEN [params |-> n, lr |-> b_lr,
          weight_decay |-> IF NoDecay(n) THEN 0 ELSE bert_weight_decay]
    ELSE [params |-> n, lr |-> lr]

\* AdamW(groups, eps=...): a group takes the optimizer's defaults for the
\* keys it does not set.
WithDefaults(g) ==
    IF "weight_decay" \in DOMAIN g THEN g
    ELSE [params |-> g.params, lr |-> g.lr,
          weight_decay |-> AdamWDefaultWeightDecay]

OIdle ==
    /\ named_parameters = <<>>
    /\ bert_lr = 0
    /\ optimizer_grouped_parameters = <<>>
    /\ param_groups = <<>>
    /\ opc = "off"

OInit ==
    /\ named_parameters \in ParamLists
    /\ bert_lr \in BertLrs
    /\ optimizer_grouped_parameters = <<>>
    /\ param_groups = <<>>
    /\ opc = "loop"

\* One iteration of the loop of lines 18-28.
O_Group ==
    /\ OOnly
    /\ opc = "loop"
    /\ Len(optimizer_grouped_parameters) < Len(named_parameters)
    /\ LET n == named_parameters[Len(optimizer_grouped_parameters) + 1]
       IN  optimizer_grouped_parameters' =
               Append(optimizer_grouped_parameters,
                      OptimizerParams(n, bert_lr, HeadLr, BertWeightDecay))
    /\ UNCHANGED <<named_parameters, bert_lr, param_groups, opc>>

\* Line 29.
O_Return ==
    /\ OOnly
    /\ opc = "loop"
    /\ Len(optimizer_grouped_parameters) = Len(named_parameters)
    /\ param_groups' = [i \in DOMAIN optimizer_grouped_parameters |->
                            WithDefaults(optimizer_grouped_parameters[i])]
    /\ opc' = "done"
    /\ UNCHANGED <<named_parameters, bert_lr, optimizer_grouped_parameters>>

ONext ==
    \/ O_Group
    \/ O_Return

----------------------------------------------------------------------------
(* evaluate (src/network/trainer.py lines 32-64).                          *)
(* The loader's batches are cut from one stream of tokens; a token carries *)
(* its gold ids and the arg-max of the logits the model gives it.          *)

MaxTokens == 2

\* The ignore sentinel of lines 46 and 54.
IgnoreIndex == -100

\* data.norm_labels, data.punc_labels: id -> label, ids from 0.
norm_dict == <<"O", "B-NUM">>
punc_dict == <<"O", "PERIOD">>
LabelIds(dict) == 0..(Len(dict) - 1)
\* dict[id]; an id outside the labels has no entry.
Lookup(dict, id) == IF id \in LabelIds(dict) THEN dict[id + 1] ELSE "KeyError"

EvalTokens ==
    [norm_id : LabelIds(norm_dict) \cup {IgnoreIndex},
     punc_id : LabelIds(punc_dict) \cup {IgnoreIndex},
     pred_norm : LabelIds(norm_dict),
     pred_punc : LabelIds(punc_dict)]

Field(tokens, f) == [i \in DOMAIN tokens |-> tokens[i][f]]

\* One batch: what lines 39-42 flatten out of it.
EvalBatch(tokens) ==
    [norm_labels |-> Field(tokens, "norm_id"),
     punc_labels |-> Field(tokens, "punc_id"),
     pred_norm_labels |-> Field(tokens, "pred_norm"),
     pred_punc_labels |-> Field(tokens, "pred_punc")]

\* The stream cut into batches of batch_size tokens (the last one shorter).
Loader(stream, batch_size) ==
    [b \in 1..((Len(stream) + batch_size - 1) \div batch_size) |->
        EvalBatch(SubSeq(stream, (b - 1) * batch_size + 1,
                         Min(b * batch_size, Len(stream))))]

Loaders ==
    {Loader(s, n) : s \in SeqsOf(EvalTokens, 0, MaxTokens), n \in 1..MaxTokens}

\* A variant of the loop that keeps every position; C4 tells it apart.
RECURSIVE ZipFilter_KeepAll(_, _)
ZipFilter_KeepAll(pred_ids, goal_ids) ==
    IF pred_ids = <<>> \/ goal_ids = <<>> THEN <<>>
    ELSE <<[pred_id |-> Head(pred_ids), goal_id |-> Head(goal_ids)]>>
            \o ZipFilter_KeepAll(Tail(pred_ids), Tail(goal_ids))

\* for pred_id, goal_id in zip(pred, gold): if goal_id != -100: ...
\* The pairs the loop body handles, in order.
RECURSIVE ZipFilter(_, _)
ZipFilter(pred_ids, goal_ids) ==
    IF pred_ids = <<>> \/ goal_ids = <<>> THEN <<>>
    ELSE LET rest == ZipFilter(Tail(pred_ids), Tail(goal_ids))
         IN  IF Head(goal_ids) # IgnoreIndex
             THEN <<[pred_id |-> Head(pred_ids), goal_id |-> Head(goal_ids)]>>
                     \o rest
             ELSE rest

\* Lines 57-58: "B-" + label unless label is "O".  A punctuation label is
\* kept as its prefix and its name.
BPrefix(label) ==
    [prefix |-> IF label # "O" THEN "B-" ELSE "", label |-> label]

\* Lines 45-50: the label lists one batch adds for norm.
NormPreds(b) ==
    LET kept == ZipFilter(b.pred_norm_labels, b.norm_labels)
    IN  [k \in DOMAIN kept |-> Lookup(norm_dict, kept[k].pred_id)]
NormGoals(b) ==
    LET kept == ZipFilter(b.pred_norm_labels, b.norm_labels)
    IN  [k \in DOMAIN kept |-> Lookup(norm_dict, kept[k].goal_id)]
\* Lines 53-60: the same for punc.
PuncPreds(b) ==
    LET kept == ZipFilter(b.pred_punc_labels, b.punc_labels)
    IN  [k \in DOMAIN kept |-> BPrefix(Lookup(punc_dict, kept[k].pred_id))]
PuncGoals(b) ==
    LET kept == ZipFilter(b.pred_punc_labels, b.punc_labels)
    IN  [k \in DOMAIN kept |-> BPrefix(Lookup(punc_dict, kept[k].goal_id))]

NoLabels == [norm |-> <<>>, punc |-> <<>>]
NotScored == [norm |-> [goal |-> <<>>, pred |-> <<>>],
              punc |-> [goal |-> <<>>, pred |-> <<>>]]

EIdle ==
    /\ data_loader = <<>>
    /\ batch_no = 0
    /\ pred_labels = NoLabels
    /\ goal_labels = NoLabels
    /\ scored = NotScored
    /\ epc = "off"

EInit ==
    /\ data_loader \in Loaders
    /\ batch_no = 0
    /\ pred_labels = NoLabels
    /\ goal_labels = NoLabels
    /\ scored = NotScored
    /\ epc = "call"

\* Lines 33-36.
E_Start ==
    /\ EOnly
    /\ epc = "call"
    /\ training' = FALSE
    /\ pred_labels' = NoLabels
    /\ goal_labels' = NoLabels
    /\ epc' = "loop"
    /\ UNCHANGED <<data_loader, batch_no, scored>>

\* Lines 37-60: one batch of the loader.
E_Batch ==
    /\ EOnly
    /\ epc = "loop"
    /\ batch_no < Len(data_loader)
    /\ LET b == data_loader[batch_no + 1]
       IN  /\ pred_labels' = [norm |-> Append(pred_labels.norm, NormPreds(b)),
                              punc |-> Append(pred_labels.punc, PuncPreds(b))]
           /\ goal_labels' = [norm |-> Append(goal_labels.norm, NormGoals(b)),
                              punc |-> Append(goal_labels.punc, PuncGoals(b))]
    /\ batch_no' = batch_no + 1
    /\ UNCHANGED <<data_loader, scored, epc, training>>

\* Lines 61-64: the two calls of the scoring function.
E_Score ==
    /\ EOnly
    /\ epc = "loop"
    /\ batch_no = Len(data_loader)
    /\ scored' = [norm |-> [goal |-> goal_labels.norm, pred |-> pred_labels.norm],
                  punc |-> [goal |-> goal_labels.punc, pred |-> pred_labels.punc]]
    /\ epc' = "done"
    /\ UNCHANGED <<data_loader, batch_no, pred_labels, goal_labels, training>>

ENext ==
    \/ E_Start
    \/ E_Batch
    \/ E_Score

----------------------------------------------------------------------------
(* train (src/network/trainer.py lines 67-161).                            *)
(* F1 scores are in percent.  The dev and test loaders hold at least one   *)
(* batch, so each evaluate runs the model.                                 *)

MaxEpochs == 5
MaxBatches == 4

TrainModes == {"nojoint", "norm_to_punc", "punc_to_norm",
               "norm_only", "punc_only"}
\* model_mode is whatever string the caller passes.
ModeArgs == TrainModes \cup {"unknown_mode"}

\* Line 73: the mode the model is built with.
ModelModeOf(m) == IF m \in {"norm_only", "punc_only"} THEN "nojoint" ELSE m

Tasks == {"norm", "punc"}
\* Lines 149 and 156: the task whose best F1 the mode tracks.
Tracked(m, task) ==
    IF task = "norm" THEN m # "punc_only" ELSE m # "norm_only"

\* The dev F1 a run can score, epoch after epoch (the last value repeats).
DevF1Runs == { <<50, 50, 60, 55, 70>>, <<70, 60, 55, 50, 50>> }
F1At(run, e) == IF e <= Len(run) THEN run[e] ELSE run[Len(run)]

\* A variant of the comparison that lets a tie update the best; C6 tells
\* it apart.
NewBest_OnTie(f1, best) == f1 >= best
\* Lines 150 and 157: dev_f1 > best_f1_scores[task].
NewBest(f1, best) == f1 > best

\* Line 100: step % (total_step//4) divides by zero when total_step < 4.
LogRaises(n_steps) == n_steps \div 4 = 0

StepOrder == <<"forward", "backward", "optimizer.step", "scheduler.step",
               "zero_grad">>

TIdle ==
    /\ model_mode = "nojoint"
    /\ total_step = 0
    /\ n_epochs = 0
    /\ dev_f1 = [t \in Tasks |-> <<0>>]
    /\ tpc = "off"
    /\ epoch = 0
    /\ step = 0
    /\ global_step = 0
    /\ grads = 0
    /\ optimizer_steps = 0
    /\ scheduler_steps = 0
    /\ step_ops = <<>>
    /\ best_f1_scores = [t \in Tasks |-> 0]
    /\ best_events = [t \in Tasks |-> <<>>]
    /\ dev_history = [t \in Tasks |-> <<>>]
    /\ best_history = [t \in Tasks |-> <<>>]
    /\ forward_calls = 0
    /\ eval_calls = 0
    /\ error = "none"

\* train(data_config, model_config, model_mode, ...) is called.
TInit ==
    /\ model_mode \in ModeArgs
    /\ total_step \in 0..MaxBatches
    /\ n_epochs \in 1..MaxEpochs
    /\ dev_f1 \in [Tasks -> DevF1Runs]
    /\ tpc = "setup"
    /\ epoch = 0
    /\ step = 0
    /\ global_step = 0
    /\ grads = 0
    /\ optimizer_steps = 0
    /\ scheduler_steps = 0
    /\ step_ops = <<>>
    /\ best_f1_scores = [t \in Tasks |-> 0]
    /\ best_events = [t \in Tasks |-> <<>>]
    /\ dev_history = [t \in Tasks |-> <<>>]
    /\ best_history = [t \in Tasks |-> <<>>]
    /\ forward_calls = 0
    /\ eval_calls = 0
    /\ error = "none"
    /\ training = TRUE

\* Lines 68-83: data, writer, model, optimizer, scheduler; no check of
\* model_mode.
T_Setup ==
    /\ TOnly
    /\ tpc = "setup"
    /\ global_step' = 0
    /\ best_f1_scores' = [t \in Tasks |-> 0]
    /\ tpc' = "epoch"
    /\ UNCHANGED <<tcfg, epoch, step, grads, step_ops, optimizer_steps,
                   scheduler_steps, forward_calls, eval_calls, best_events,
                   dev_history, best_history, error, training>>

\* Lines 84-87: the next epoch begins with model.train().
T_EpochStart ==
    /\ TOnly
    /\ tpc = "epoch"
    /\ epoch < n_epochs
    /\ training' = TRUE
    /\ step' = 0
    /\ tpc' = "batch"
    /\ UNCHANGED <<tcfg, epoch, grads, step_ops, tcount, tbest, error>>

\* Line 84, range exhausted: train returns.
T_Finish ==
    /\ TOnly
    /\ tpc = "epoch"
    /\ epoch = n_epochs
    /\ tpc' = "done"
    /\ UNCHANGED <<tcfg, epoch, step, grads, step_ops, tcount, tbest, error,
                   training>>

\* Lines 88-89: the loader yields the next batch.
T_NextBatch ==
    /\ TOnly
    /\ tpc = "batch"
    /\ step < total_step
    /\ global_step' = global_step + 1
    /\ step_ops' = <<>>
    /\ tpc' = "forward"
    /\ UNCHANGED <<tcfg, epoch, step, grads, optimizer_steps, scheduler_steps,
                   forward_calls, eval_calls, tbest, error, training>>

\* Lines 90-98: model(*batch) and the choice of the loss.
T_Forward ==
    /\ TOnly
    /\ tpc = "forward"
    /\ forward_calls' = forward_calls + 1
    /\ IF ForwardRaises(ModelModeOf(model_mode))
       THEN /\ tpc' = "crashed"
            /\ error' = "UnboundLocalError"
            /\ UNCHANGED step_ops
       ELSE /\ tpc' = "log"
            /\ step_ops' = Append(step_ops, "forward")
            /\ UNCHANGED error
    /\ UNCHANGED <<tcfg, epoch, step, grads, global_step, optimizer_steps,
                   scheduler_steps, eval_calls, tbest, training>>

\* Lines 100-104: the progress line and the scalars.
T_Log ==
    /\ TOnly
    /\ tpc = "log"
    /\ IF LogRaises(total_step)
       THEN /\ tpc' = "crashed"
            /\ error' = "ZeroDivisionError"
       ELSE /\ tpc' = "backward"
            /\ UNCHANGED error
    /\ UNCHANGED <<tcfg, epoch, step, grads, step_ops, tcount, tbest, training>>

\* Lines 105-109: backward, through amp.scale_loss or directly.
T_Backward ==
    /\ TOnly
    /\ tpc = "backward"
    /\ grads' = grads + 1
    /\ step_ops' = Append(step_ops, "backward")
    /\ tpc' = "optimizer"
    /\ UNCHANGED <<tcfg, epoch, step, tcount, tbest, error, training>>

\* Line 110.
T_OptimizerStep ==
    /\ TOnly
    /\ tpc = "optimizer"
    /\ optimizer_steps' = optimizer_steps + 1
    /\ step_ops' = Append(step_ops, "optimizer.step")
    /\ tpc' = "scheduler"
    /\ UNCHANGED <<tcfg, epoch, step, grads, global_step, scheduler_steps,
                   forward_calls, eval_calls, tbest, error, training>>

\* Line 111.
T_SchedulerStep ==
    /\ TOnly
    /\ tpc = "scheduler"
    /\ scheduler_steps' = scheduler_steps + 1
    /\ step_ops' = Append(step_ops, "scheduler.step")
    /\ tpc' = "zero_grad"
    /\ UNCHANGED <<tcfg, epoch, step, grads, global_step, optimizer_steps,
                   forward_calls, eval_calls, tbest, error, training>>

\* Lines 112-113: the gradients are reset and the step ends.
T_ZeroGrad ==
    /\ TOnly
    /\ tpc = "zero_grad"
    /\ grads' = 0
    /\ step_ops' = Append(step_ops, "zero_grad")
    /\ step' = step + 1
    /\ tpc' = "batch"
    /\ UNCHANGED <<tcfg, epoch, tcount, tbest, error, training>>

\* evaluate(model, loader, ...) as train sees it: model.eval(), then the
\* model's forward on the loader's batches.
Evaluate(next_pc) ==
    /\ eval_calls' = eval_calls + 1
    /\ training' = FALSE
    /\ forward_calls' = forward_calls + 1
    /\ IF ForwardRaises(ModelModeOf(model_mode))
       THEN /\ tpc' = "crashed"
            /\ error' = "UnboundLocalError"
       ELSE /\ tpc' = next_pc
            /\ UNCHANGED error

\* Lines 115-132: the loader is exhausted; evaluate on the dev split.
T_EvalDev ==
    /\ TOnly
    /\ tpc = "batch"
    /\ step = total_step
    /\ Evaluate("eval_test")
    /\ UNCHANGED <<tcfg, epoch, step, grads, step_ops, global_step,
                   optimizer_steps, scheduler_steps, tbest>>

\* Lines 134-147: evaluate on the test split.
T_EvalTest ==
    /\ TOnly
    /\ tpc = "eval_test"
    /\ Evaluate("track")
    /\ UNCHANGED <<tcfg, epoch, step, grads, step_ops, global_step,
                   optimizer_steps, scheduler_steps, tbest>>

\* Lines 149-161: the best dev F1 of each tracked task.
T_Track ==
    /\ TOnly
    /\ tpc = "track"
    /\ LET f1(t) == F1At(dev_f1[t], epoch + 1)
           new(t) == Tracked(model_mode, t) /\ NewBest(f1(t), best_f1_scores[t])
       IN  /\ best_f1_scores' = [t \in Tasks |->
                IF new(t) THEN f1(t) ELSE best_f1_scores[t]]
           /\ best_events' = [t \in Tasks |->
                IF new(t) THEN Append(best_events[t], epoch + 1)
                ELSE best_events[t]]
           /\ dev_history' = [t \in Tasks |->
                IF Tracked(model_mode, t) THEN Append(dev_history[t], f1(t))
                ELSE dev_history[t]]
           /\ best_history' = [t \in Tasks |->
                IF Tracked(model_mode, t)
                THEN Append(best_history[t], best_f1_scores'[t])
                ELSE best_history[t]]
    /\ epoch' = epoch + 1
    /\ tpc' = "epoch"
    /\ UNCHANGED <<tcfg, step, grads, step_ops, tcount, error, training>>

TNext ==
    \/ T_Setup
    \/ T_EpochStart
    \/ T_Finish
    \/ T_NextBatch
    \/ T_Forward
    \/ T_Log
    \/ T_Backward
    \/ T_OptimizerStep
    \/ T_SchedulerStep
    \/ T_ZeroGrad
    \/ T_EvalDev
    \/ T_EvalTest
    \/ T_Track

----------------------------------------------------------------------------
(* The specifications: each runs one unit and leaves the others idle.      *)

InitForward == FInit /\ DIdle /\ OIdle /\ EIdle /\ TIdle /\ training = TRUE
SpecForward == InitForward /\ [][FNext]_vars

InitDecoder == DInit /\ FIdle /\ OIdle /\ EIdle /\ TIdle /\ training = TRUE
SpecDecoder == InitDecoder /\ [][DNext]_vars

InitOptim == OInit /\ FIdle /\ DIdle /\ EIdle /\ TIdle /\ training = TRUE
SpecOptim == InitOptim /\ [][ONext]_vars

\* evaluate is called with the model in either mode.
InitEval == EInit /\ FIdle /\ DIdle /\ OIdle /\ TIdle /\ training \in BOOLEAN
SpecEval == InitEval /\ [][ENext]_vars

InitTrain == TInit /\ FIdle /\ DIdle /\ OIdle /\ EIdle
SpecTrain == InitTrain /\ [][TNext]_vars

----------------------------------------------------------------------------
(* Claims about BERTModel.forward, checked under SpecForward.              *)

BothBlocks == args.next_blocks.given /\ args.prev_blocks.given
BothLabels == args.norm_ids /\ args.punc_ids
PastEncoding == fpc \in {"context", "attach", "hidden", "decode",
                         "returned", "raised"}
PastPooling == fpc \in {"decode", "returned", "raised"}
                  /\ norm_hidden_output.bound /\ punc_hidden_output.bound

\* C1: on every call path the encoder runs with the right flag: a
\* forward_bert pass without conditioning context runs with is_decoder
\* false, a conditioned one with is_decoder true, and every pass over a
\* prev/next context block runs with is_decoder false.
C1_FlagRightOnEveryPass ==
    \A i \in DOMAIN passes :
        LET p == passes[i]
        IN  /\ p.via = "forward_bert" => (p.is_decoder <=> p.ctx # 0)
            /\ p.via = "bert" => ~p.is_decoder

\* C2: the two task encodings follow the topology of model_mode: the first
\* pass is never conditioned; in nojoint neither is the second; in
\* norm_to_punc the passes are norm, then punc conditioned on the norm
\* pass's output; in punc_to_norm punc, then norm conditioned on the punc
\* pass's output.
C2_TopologyFollowsMode ==
    (PastEncoding /\ mode \in JointModes) =>
        /\ Len(passes) >= 2
        /\ {i \in DOMAIN passes : passes[i].via = "forward_bert"} = {1, 2}
        /\ passes[1].ctx = 0
        /\ mode = "nojoint" =>
              /\ passes[1].task = "norm" /\ passes[2].task = "punc"
              /\ passes[2].ctx = 0
        /\ mode = "norm_to_punc" =>
              /\ passes[1].task = "norm" /\ passes[2].task = "punc"
              /\ passes[2].ctx = 1
        /\ mode = "punc_to_norm" =>
              /\ passes[1].task = "punc" /\ passes[2].task = "norm"
              /\ passes[2].ctx = 1

C2_Witness ==
    /\ fpc = "returned"
    /\ mode = "norm_to_punc"
    /\ Len(passes) >= 2
    /\ passes[2].ctx = 1

\* C3: with context blocks attached the concatenated window has length
\* prev_len + focal_len + next_len (for any lengths, 0 included), and after
\* pooling and stripping each task's hidden output is exactly the focal
\* span of the window: positions prev_len .. prev_len + focal_len - 1.
C3_StripReturnsFocalSpan ==
    (PastPooling /\ BothBlocks) =>
        LET prev_len == SumSeq(args.prev_blocks.lens)
            next_len == SumSeq(args.next_blocks.lens)
            focal(window) == SubSeq(window, prev_len + 1,
                                    prev_len + args.focal_len)
        IN  /\ Len(norm_bert_output.seq) = prev_len + args.focal_len + next_len
            /\ Len(punc_bert_output.seq) = prev_len + args.focal_len + next_len
            /\ Len(norm_hidden_output.seq) = args.focal_len
            /\ Len(punc_hidden_output.seq) = args.focal_len
            /\ norm_hidden_output.seq = focal(norm_bert_output.seq)
            /\ punc_hidden_output.seq = focal(punc_bert_output.seq)
            /\ norm_hidden_output.seq = Positions("focal", args.focal_len)

\* C8: a forward pass that reaches its last statement returns the pair of
\* losses if and only if both label tensors were supplied, and in every
\* other case returns the pair of logits without raising.
C8_LossesIffBothLabels ==
    (fpc \in {"returned", "raised"} /\ result # "UnboundLocalError") =>
        IF BothLabels THEN result = "losses" ELSE result = "logits"

----------------------------------------------------------------------------
(* Claims about the decoding heads, checked under SpecDecoder.             *)

\* C7: the decoder follows the biaffine flag given to train: with the flag
\* off, two runs that agree on a task's own MLP output get the same logits
\* for the task whatever the other task's MLP output is, and the logits are
\* computed from the own MLP output only; with the flag on, each task's
\* logits are computed from both MLP outputs.
C7_DecoderFollowsBiaffineFlag ==
    (logits[1].done /\ logits[2].done) =>
        /\ (~biaffine /\ mlp_output[1].norm = mlp_output[2].norm)
              => logits[1].norm = logits[2].norm
        /\ (~biaffine /\ mlp_output[1].punc = mlp_output[2].punc)
              => logits[1].punc = logits[2].punc
        /\ \A r \in Runs :
              /\ logits[r].norm_from =
                    IF biaffine THEN {"norm_mlp_output", "punc_mlp_output"}
                    ELSE {"norm_mlp_output"}
              /\ logits[r].punc_from =
                    IF biaffine THEN {"norm_mlp_output", "punc_mlp_output"}
                    ELSE {"punc_mlp_output"}

----------------------------------------------------------------------------
(* Claims about init_default_optimizer, checked under SpecOptim.           *)

OneGroupPerParameter ==
    /\ Len(param_groups) = Len(named_parameters)
    /\ \A i \in DOMAIN param_groups :
          /\ param_groups[i].params = named_parameters[i]
          /\ param_groups[i].lr =
                IF StartsWithBert(named_parameters[i]) THEN bert_lr ELSE HeadLr

\* C5 (as claimed): one group per parameter; encoder parameters get the
\* encoder learning rate and the others the head learning rate; a name with
\* a bias or LayerNorm.weight marker gets weight decay 0 and every other
\* parameter, encoder and head alike, the configured decay.
C5_DecayForAllUnmarked ==
    opc = "done" =>
        /\ OneGroupPerParameter
        /\ \A i \in DOMAIN param_groups :
              param_groups[i].weight_decay =
                 IF NoDecay(named_parameters[i]) THEN 0 ELSE BertWeightDecay

\* C5 (amended): one group per parameter with the learning rates as claimed;
\* an encoder parameter gets weight decay 0 if its name carries a marker and
\* the configured decay otherwise; a parameter outside the encoder gets no
\* weight_decay entry, marker or not, and so the optimizer's default.
C5_DecayForEncoderOnly ==
    opc = "done" =>
        /\ OneGroupPerParameter
        /\ Len(optimizer_grouped_parameters) = Len(named_parameters)
        /\ \A i \in DOMAIN param_groups :
              LET n == named_parameters[i]
                  g == optimizer_grouped_parameters[i]
              IN  IF StartsWithBert(n)
                  THEN /\ "weight_decay" \in DOMAIN g
                       /\ g.weight_decay =
                             IF NoDecay(n) THEN 0 ELSE BertWeightDecay
                       /\ param_groups[i].weight_decay = g.weight_decay
                  ELSE /\ "weight_decay" \notin DOMAIN g
                       /\ param_groups[i].weight_decay =
                             AdamWDefaultWeightDecay

C5_Witness ==
    /\ opc = "done"
    /\ \E i, j, k \in DOMAIN named_parameters :
          /\ ~StartsWithBert(named_parameters[i])
          /\ ~NoDecay(named_parameters[i])
          /\ StartsWithBert(named_parameters[j])
          /\ NoDecay(named_parameters[j])
          /\ StartsWithBert(named_parameters[k])
          /\ ~NoDecay(named_parameters[k])

----------------------------------------------------------------------------
(* Claims about evaluate, checked under SpecEval.                          *)

\* The positions of a batch whose gold id is not the sentinel, and the k-th
\* of them in position order.
KeptPositions(gold) == {i \in DOMAIN gold : gold[i] # IgnoreIndex}
KthKept(gold, k) ==
    CHOOSE i \in KeptPositions(gold) :
        Cardinality({j \in KeptPositions(gold) : j <= i}) = k

\* The label lists hold exactly the kept positions of the batch, in order,
\* each with the label of its id.
ScoredLabel(dict, id, is_punc) ==
    IF is_punc THEN BPrefix(Lookup(dict, id)) ELSE Lookup(dict, id)
HoldsKept(preds, goals, pred_ids, gold_ids, dict, is_punc) ==
    LET n == Cardinality(KeptPositions(gold_ids))
    IN  /\ Len(preds) = n
        /\ Len(goals) = n
        /\ \A k \in 1..n :
              LET i == KthKept(gold_ids, k)
              IN  /\ gold_ids[i] # IgnoreIndex
                  /\ preds[k] = ScoredLabel(dict, pred_ids[i], is_punc)
                  /\ goals[k] = ScoredLabel(dict, gold_ids[i], is_punc)

\* C4: for every batch and both tasks, the predicted and gold sequences
\* handed to the scorer leave out every position whose gold id is -100 and
\* hold every other position, at the same index in both and in the original
\* order; so the two sequences have equal length.
C4_SentinelPositionsDropped ==
    /\ epc \in {"loop", "done"} =>
          /\ Len(pred_labels.norm) = batch_no
          /\ Len(goal_labels.norm) = batch_no
          /\ Len(pred_labels.punc) = batch_no
          /\ Len(goal_labels.punc) = batch_no
          /\ \A b \in 1..batch_no :
                /\ HoldsKept(pred_labels.norm[b], goal_labels.norm[b],
                             data_loader[b].pred_norm_labels,
                             data_loader[b].norm_labels, norm_dict, FALSE)
                /\ HoldsKept(pred_labels.punc[b], goal_labels.punc[b],
                             data_loader[b].pred_punc_labels,
                             data_loader[b].punc_labels, punc_dict, TRUE)
    /\ epc = "done" =>
          /\ batch_no = Len(data_loader)
          /\ scored.norm = [goal |-> goal_labels.norm, pred |-> pred_labels.norm]
          /\ scored.punc = [goal |-> goal_labels.punc, pred |-> pred_labels.punc]

C4_Witness ==
    /\ epc = "done"
    /\ \E b \in DOMAIN data_loader :
          /\ Len(data_loader[b].norm_labels) >= 2
          /\ data_loader[b].norm_labels[1] = IgnoreIndex
          /\ data_loader[b].norm_labels[2] # IgnoreIndex
          /\ data_loader[b].punc_labels[2] = IgnoreIndex
          /\ Len(scored.norm.pred[b]) = 1

----------------------------------------------------------------------------
(* Claims about train, checked under SpecTrain.                            *)

ClaimedDevF1 == <<50, 50, 60, 55, 70>>
ClaimedBest == <<50, 50, 60, 60, 70>>
FirstEpochs(h) == SubSeq(h, 1, Len(ClaimedDevF1))
\* The epochs among the claimed ones that reported a new best.
NewBestEpochs(t) ==
    {best_events[t][i] : i \in DOMAIN best_events[t]}
        \cap (1..Len(ClaimedDevF1))
SawClaimedDevF1(t) ==
    /\ Len(dev_history[t]) >= Len(ClaimedDevF1)
    /\ FirstEpochs(dev_history[t]) = ClaimedDevF1

InTrainingStep ==
    tpc \in {"forward", "log", "backward", "optimizer", "scheduler",
             "zero_grad"}

====
